---- MODULE Spec2Model ----
(***************************************************************************)
(* Model of cookbook/agents/app.py: the PhidataPoeBot adapter.             *)
(*                                                                         *)
(*   - construction of a bot (fastapi_app -> PhidataPoeBot.__init__):      *)
(*     ensure_pgvector_running against a container engine, get_agent,      *)
(*     create_run, make_app;                                               *)
(*   - get_response: one coroutine per request on the event loop, the      *)
(*     agent's generation handed to the loop's default thread pool         *)
(*     (run_in_executor(None, ...)), one PartialResponse yielded;          *)
(*   - run_agent: the worker-thread body draining agent.run(...).          *)
(*                                                                         *)
(* Texts (fragments, response_text, chunk text) are sequences of           *)
(* characters, so that += is sequence concatenation.                       *)
(***************************************************************************)
EXTENDS Naturals, Sequences, FiniteSets, TLC

VARIABLES
    container,   \* the engine's record of the container named "pgvector"
    envSteps,    \* changes made to the engine by actors other than the bots
    bpc,         \* per bot: position inside fastapi_app / __init__
    obs,         \* per bot: what containers.get("pgvector") gave this bot
    log,         \* per bot: the calls made during construction, in order
    agent,       \* per bot: self.agent (<<>> while the attribute is unset)
    agentRunId,  \* per bot: self.agent_run_id (<<>> while unset)
    rpc,         \* per request: position of its get_response coroutine / worker
    rbot,        \* per request: the bot whose get_response handles it
    query,       \* per request: request.query, the contents of its messages
    userMsg,     \* per request: local user_message of get_response
    runCalls,    \* per request: the agent.run(...) invocations made for it
    produced,    \* per request: fragments the agent's generator has yielded
    text,        \* per request: local response_text of run_agent
    chunks,      \* per request: the PartialResponse texts yielded so far
    queue        \* per bot: work items waiting in the default executor

bvars == <<container, envSteps, bpc, obs, log, agent, agentRunId>>
rvars == <<rpc, rbot, query, userMsg, runCalls, produced, text, chunks, queue>>
vars == <<container, envSteps, bpc, obs, log, agent, agentRunId,
          rpc, rbot, query, userMsg, runCalls, produced, text, chunks, queue>>

(***************************************************************************)
(* Bounds of the model.                                                    *)
(***************************************************************************)
\* Longest generation: fragments one agent.run(...) yields before it ends.
MaxFrags == 2
\* Changes made to the engine from outside the bots (docker rm / docker stop).
MaxEnv == 1
\* Worker threads of the event loop's default executor.  The real pool holds
\* min(32, cpu_count + 4) threads; the model is parametric in the number.
MaxWorkers == 2

Bots == {"b1", "b2"}
\* Request identities; one more than the executor has workers.
Requests == 1..(MaxWorkers + 1)
BootReqs == {1}
ServeReqs == {1, 2}
LiveBots == {"b1"}

\* request.query contents: the message list may be empty.
Queries == {<<>>, <<"b">>, <<"a", "b, what is it?">>}
LiveQueries == {<<"2+2">>}
\* Fragments agent.run may yield.
Frags == {<<"x">>, <<"y", "z">>}
LiveFrags == {<<"4">>}

(***************************************************************************)
(* Fixed values of ensure_pgvector_running.                                *)
(***************************************************************************)
ContainerName == "pgvector"
StartDelay == 10
CreateDelay == 15
CreateArgs ==
    [image |-> "phidata/pgvector:16",
     name |-> "pgvector",
     detach |-> TRUE,
     ports |-> [container |-> "5432/tcp", host |-> 5532],
     environment |-> [POSTGRES_DB |-> "ai", POSTGRES_USER |-> "ai",
                      POSTGRES_PASSWORD |-> "ai"]]
AgentArgs ==
    [llm_id |-> "gpt-4o-mini", calculator |-> TRUE, ddg_search |-> TRUE,
     file_tools |-> TRUE, finance_tools |-> TRUE, data_analyst |-> TRUE,
     python_assistant |-> TRUE, research_assistant |-> TRUE,
     investment_assistant |-> TRUE, firecrawl_tools |-> TRUE]

(***************************************************************************)
(* Helpers on the call log.                                                *)
(***************************************************************************)
Call(op, arg, res) == [op |-> op, arg |-> arg, res |-> res]

Idx(l, op) == {i \in DOMAIN l : l[i].op = op}

Count(l, op) == Cardinality(Idx(l, op))

\* The log as <<op, result>> pairs.
Shape(l) == [i \in DOMAIN l |-> <<l[i].op, l[i].res>>]

RECURSIVE Flatten(_)
Flatten(fs) == IF fs = <<>> THEN <<>> ELSE Head(fs) \o Flatten(Tail(fs))


(***************************************************************************)
(* The container engine (the docker control plane), as the bots see it.    *)
(***************************************************************************)
Statuses == {"absent", "exited", "running"}

\* Someone other than the bots removes the container (docker rm -f).
EnvRemove ==
    /\ envSteps < MaxEnv
    /\ container # "absent"
    /\ container' = "absent"
    /\ envSteps' = envSteps + 1
    /\ UNCHANGED <<bpc, obs, log, agent, agentRunId>>
    /\ UNCHANGED rvars

\* Someone other than the bots stops the container (docker stop).
EnvStop ==
    /\ envSteps < MaxEnv
    /\ container = "running"
    /\ container' = "exited"
    /\ envSteps' = envSteps + 1
    /\ UNCHANGED <<bpc, obs, log, agent, agentRunId>>
    /\ UNCHANGED rvars

(***************************************************************************)
(* fastapi_app and PhidataPoeBot.__init__                                  *)
(***************************************************************************)
\* fastapi_app is invoked: PhidataPoeBot() begins, super().__init__() is done.
fastapi_app(b) ==
    /\ bpc[b] = "new"
    /\ bpc' = [bpc EXCEPT ![b] = "ensure"]
    /\ UNCHANGED <<container, envSteps, obs, log, agent, agentRunId>>
    /\ UNCHANGED rvars

\* What client.containers.get("pgvector") can give: the container's status,
\* NotFound, or any other control-plane error.
GetResults ==
    {IF container = "absent" THEN "NotFound" ELSE container, "APIError"}

\* Variant: the except clause catches every control-plane error.
AfterGetBroad(res) ==
    CASE res = "running" -> "get_agent"
      [] res = "NotFound" -> "run"
      [] res = "APIError" -> "run"
      [] OTHER -> "start"

\* Where ensure_pgvector_running goes after the lookup: a running container
\* ends it, NotFound enters the except clause, any other error leaves
\* __init__, any other status leads to container.start().
AfterGet(res) ==
    CASE res = "running" -> "get_agent"
      [] res = "NotFound" -> "run"
      [] res = "APIError" -> "aborted"
      [] OTHER -> "start"

ContainersGet(b) ==
    /\ bpc[b] = "ensure"
    /\ \E res \in GetResults :
          /\ obs' = [obs EXCEPT ![b] = res]
          /\ log' = [log EXCEPT ![b] = Append(@, Call("get", ContainerName, res))]
          /\ bpc' = [bpc EXCEPT ![b] = AfterGet(res)]
    /\ UNCHANGED <<container, envSteps, agent, agentRunId>>
    /\ UNCHANGED rvars

\* What container.start() can give: the engine no longer has the container
\* (NotFound), it starts, or any other control-plane error.
StartResults ==
    {IF container = "absent" THEN "NotFound" ELSE "ok", "APIError"}

\* Variant: the except clause catches every error of container.start().
AfterStartBroad(res) ==
    CASE res = "ok" -> "sleep10"
      [] OTHER -> "run"

\* Variant: no sleep after the start.
AfterStartNoSleep(res) ==
    CASE res = "ok" -> "get_agent"
      [] res = "NotFound" -> "run"
      [] OTHER -> "aborted"

\* Where ensure_pgvector_running goes after container.start(): the call is
\* inside the try block, so its NotFound reaches the except clause too.
AfterStart(res) ==
    CASE res = "ok" -> "sleep10"
      [] res = "NotFound" -> "run"
      [] OTHER -> "aborted"

ContainerStart(b) ==
    /\ bpc[b] = "start"
    /\ \E res \in StartResults :
          /\ log' = [log EXCEPT ![b] = Append(@, Call("start", ContainerName, res))]
          /\ container' = IF res = "ok" THEN "running" ELSE container
          /\ bpc' = [bpc EXCEPT ![b] = AfterStart(res)]
    /\ UNCHANGED <<envSteps, obs, agent, agentRunId>>
    /\ UNCHANGED rvars

\* time.sleep(10) after a start that returned.
SleepAfterStart(b) ==
    /\ bpc[b] = "sleep10"
    /\ log' = [log EXCEPT ![b] = Append(@, Call("sleep", StartDelay, "ok"))]
    /\ bpc' = [bpc EXCEPT ![b] = "get_agent"]
    /\ UNCHANGED <<container, envSteps, obs, agent, agentRunId>>
    /\ UNCHANGED rvars

\* What client.containers.run(...) can give: the container is created and
\* started, the name is already taken (409, an APIError), the image is not
\* found, or any other control-plane error.
RunResults ==
    {IF container = "absent" THEN "ok" ELSE "APIError", "APIError", "NotFound"}

\* Variant: the container port published on the same host port.
RunArgsNoPorts == [CreateArgs EXCEPT !.ports = [container |-> "5432/tcp", host |-> 5432]]

\* The arguments of the create-and-start call.
RunArgs == CreateArgs

\* Where the except clause goes after containers.run(...): nothing catches
\* what it raises.
AfterRun(res) ==
    CASE res = "ok" -> "sleep15"
      [] OTHER -> "aborted"

\* Variant: the except clause goes to its sleep without creating anything.
ExceptWithoutRun(b) ==
    /\ bpc[b] = "run"
    /\ bpc' = [bpc EXCEPT ![b] = "sleep15"]
    /\ UNCHANGED <<container, envSteps, obs, log, agent, agentRunId>>
    /\ UNCHANGED rvars

\* The except docker.errors.NotFound clause: client.containers.run(...).
ContainersRun(b) ==
    /\ bpc[b] = "run"
    /\ \E res \in RunResults :
          /\ log' = [log EXCEPT ![b] = Append(@, Call("run", RunArgs, res))]
          /\ container' = IF res = "ok" THEN "running" ELSE container
          /\ bpc' = [bpc EXCEPT ![b] = AfterRun(res)]
    /\ UNCHANGED <<envSteps, obs, agent, agentRunId>>
    /\ UNCHANGED rvars

\* time.sleep(15) after a create-and-start that returned.
SleepAfterRun(b) ==
    /\ bpc[b] = "sleep15"
    /\ log' = [log EXCEPT ![b] = Append(@, Call("sleep", CreateDelay, "ok"))]
    /\ bpc' = [bpc EXCEPT ![b] = "get_agent"]
    /\ UNCHANGED <<container, envSteps, obs, agent, agentRunId>>
    /\ UNCHANGED rvars

\* self.agent = get_agent(...): a new Agent object, or get_agent raises.
GetAgent(b) ==
    /\ bpc[b] = "get_agent"
    /\ \E res \in {"ok", "error"} :
          /\ log' = [log EXCEPT ![b] = Append(@, Call("get_agent", AgentArgs, res))]
          /\ agent' = [agent EXCEPT ![b] =
                          IF res = "ok" THEN <<b, Count(log[b], "get_agent") + 1>>
                          ELSE @]
          /\ bpc' = [bpc EXCEPT ![b] = IF res = "ok" THEN "create_run" ELSE "aborted"]
    /\ UNCHANGED <<container, envSteps, obs, agentRunId>>
    /\ UNCHANGED rvars

\* self.agent_run_id = self.agent.create_run(), or create_run raises.
CreateRun(b) ==
    /\ bpc[b] = "create_run"
    /\ \E res \in {"ok", "error"} :
          /\ log' = [log EXCEPT ![b] = Append(@, Call("create_run", agent[b], res))]
          /\ agentRunId' = [agentRunId EXCEPT ![b] =
                               IF res = "ok" THEN <<"run", agent[b]>> ELSE @]
          /\ bpc' = [bpc EXCEPT ![b] = IF res = "ok" THEN "make_app" ELSE "aborted"]
    /\ UNCHANGED <<container, envSteps, obs, agent>>
    /\ UNCHANGED rvars

\* app = fp.make_app(bot, allow_without_key=True); return app.
MakeApp(b) ==
    /\ bpc[b] = "make_app"
    /\ log' = [log EXCEPT ![b] = Append(@, Call("make_app", b, "ok"))]
    /\ bpc' = [bpc EXCEPT ![b] = "serving"]
    /\ UNCHANGED <<container, envSteps, obs, agent, agentRunId>>
    /\ UNCHANGED rvars


(***************************************************************************)
(* get_response (event loop) and run_agent (worker thread)                 *)
(***************************************************************************)
\* request.query[-1].content; IndexError on an empty list is the caller's case.
LastContent(q) == q[Len(q)]

\* Requests whose run_agent occupies a worker thread of bot b's executor.
Busy(b) == {r \in Requests : rbot[r] = b /\ rpc[r] \in {"running", "hung"}}

\* Variant: an executor with a single worker thread.
WorkerFreeSingle(b) == Cardinality(Busy(b)) < 1

\* The default executor starts a work item when it has a thread to spare.
WorkerFree(b) == Cardinality(Busy(b)) < MaxWorkers

\* Variant: an empty message list answered with an empty text.
EmptyQueryEmptyChunk(r) ==
    /\ rpc' = [rpc EXCEPT ![r] = "done"]
    /\ chunks' = [chunks EXCEPT ![r] = << <<>> >>]

\* request.query[-1] on an empty list: IndexError leaves get_response.
EmptyQuery(r) ==
    /\ rpc' = [rpc EXCEPT ![r] = "failed"]
    /\ chunks' = chunks

\* A request reaches bot b's get_response: line 35 reads the last message
\* (IndexError when there is none), lines 38-39 hand run_agent to the
\* executor and suspend the coroutine.
get_response(r, b, q) ==
    /\ rpc[r] = "new"
    /\ bpc[b] = "serving"
    /\ rbot' = [rbot EXCEPT ![r] = b]
    /\ query' = [query EXCEPT ![r] = q]
    /\ IF q = <<>>
       THEN /\ EmptyQuery(r)
            /\ UNCHANGED <<userMsg, queue>>
       ELSE /\ userMsg' = [userMsg EXCEPT ![r] = LastContent(q)]
            /\ queue' = [queue EXCEPT ![b] = Append(@, r)]
            /\ rpc' = [rpc EXCEPT ![r] = "queued"]
            /\ chunks' = chunks
    /\ UNCHANGED <<runCalls, produced, text>>
    /\ UNCHANGED bvars

\* Variant: an Agent object made for the call.
AgentOfFresh(b) == <<b, 2>>

\* The Agent object run_agent invokes: self.agent.
AgentOf(b) == agent[b]

\* A worker thread takes the oldest work item and enters run_agent:
\* response_text = "" and self.agent.run(user_message) is invoked.
run_agent(b) ==
    /\ queue[b] # <<>>
    /\ WorkerFree(b)
    /\ LET r == Head(queue[b]) IN
          /\ queue' = [queue EXCEPT ![b] = Tail(@)]
          /\ rpc' = [rpc EXCEPT ![r] = "running"]
          /\ runCalls' = [runCalls EXCEPT ![r] =
                             Append(@, [agent |-> AgentOf(b), msg |-> userMsg[r]])]
          /\ text' = [text EXCEPT ![r] = <<>>]
    /\ UNCHANGED <<rbot, query, userMsg, produced, chunks>>
    /\ UNCHANGED bvars

\* Variant: the fragment put in front.
AccumulatePrepend(t, delta) == delta \o t

\* response_text += delta
Accumulate(t, delta) == t \o delta

\* One iteration of the for loop: the agent yields fragment f, the body
\* appends it.  A generation yields at most cap fragments.
AgentYield(r, f, cap) ==
    /\ rpc[r] = "running"
    /\ Len(produced[r]) < cap
    /\ produced' = [produced EXCEPT ![r] = Append(@, f)]
    /\ text' = [text EXCEPT ![r] = Accumulate(@, f)]
    /\ UNCHANGED <<rpc, rbot, query, userMsg, runCalls, chunks, queue>>
    /\ UNCHANGED bvars

\* The generator is exhausted: return response_text.
AgentComplete(r) ==
    /\ rpc[r] = "running"
    /\ rpc' = [rpc EXCEPT ![r] = "returned"]
    /\ UNCHANGED <<rbot, query, userMsg, runCalls, produced, text, chunks, queue>>
    /\ UNCHANGED bvars

\* The generator raises: the error leaves run_agent and the worker thread.
AgentRaise(r) ==
    /\ rpc[r] = "running"
    /\ rpc' = [rpc EXCEPT ![r] = "raised"]
    /\ UNCHANGED <<rbot, query, userMsg, runCalls, produced, text, chunks, queue>>
    /\ UNCHANGED bvars

\* The generator never yields again and never ends.
AgentHang(r) ==
    /\ rpc[r] = "running"
    /\ rpc' = [rpc EXCEPT ![r] = "hung"]
    /\ UNCHANGED <<rbot, query, userMsg, runCalls, produced, text, chunks, queue>>
    /\ UNCHANGED bvars

\* The chunks get_response yields from the awaited result.
ResponseChunks(r) == <<text[r]>>

\* The await returns response_text: yield fp.PartialResponse(text=...), and
\* the async generator ends.
Resume(r) ==
    /\ rpc[r] = "returned"
    /\ chunks' = [chunks EXCEPT ![r] = @ \o ResponseChunks(r)]
    /\ rpc' = [rpc EXCEPT ![r] = "done"]
    /\ UNCHANGED <<rbot, query, userMsg, runCalls, produced, text, queue>>
    /\ UNCHANGED bvars

\* Variant: the text gathered before the error is delivered.
ErrorChunksPartial(r) == <<text[r]>>

\* The chunks get_response yields when the await raises: none.
ErrorChunks(r) == <<>>

\* The await re-raises the worker's error out of get_response.
ResumeError(r) ==
    /\ rpc[r] = "raised"
    /\ chunks' = [chunks EXCEPT ![r] = @ \o ErrorChunks(r)]
    /\ rpc' = [rpc EXCEPT ![r] = "failed"]
    /\ UNCHANGED <<rbot, query, userMsg, runCalls, produced, text, queue>>
    /\ UNCHANGED bvars

(***************************************************************************)
(* Specifications                                                          *)
(***************************************************************************)
InitRequests ==
    /\ rpc = [r \in Requests |-> "new"]
    /\ rbot = [r \in Requests |-> "none"]
    /\ query = [r \in Requests |-> <<>>]
    /\ userMsg = [r \in Requests |-> ""]
    /\ runCalls = [r \in Requests |-> <<>>]
    /\ produced = [r \in Requests |-> <<>>]
    /\ text = [r \in Requests |-> <<>>]
    /\ chunks = [r \in Requests |-> <<>>]
    /\ queue = [b \in Bots |-> <<>>]

\* Before any deployment: the engine in any state, no bot constructed.
Init ==
    /\ container \in Statuses
    /\ envSteps = 0
    /\ bpc = [b \in Bots |-> "new"]
    /\ obs = [b \in Bots |-> "none"]
    /\ log = [b \in Bots |-> <<>>]
    /\ agent = [b \in Bots |-> <<>>]
    /\ agentRunId = [b \in Bots |-> <<>>]
    /\ InitRequests

Construct(b) ==
    \/ fastapi_app(b)
    \/ ContainersGet(b)
    \/ ContainerStart(b)
    \/ SleepAfterStart(b)
    \/ ContainersRun(b)
    \/ SleepAfterRun(b)
    \/ GetAgent(b)
    \/ CreateRun(b)
    \/ MakeApp(b)

Serve(R, B, Q, F, cap) ==
    \/ \E r \in R, b \in B, q \in Q : get_response(r, b, q)
    \/ \E b \in B : run_agent(b)
    \/ \E r \in R, f \in F : AgentYield(r, f, cap)
    \/ \E r \in R : AgentComplete(r)
    \/ \E r \in R : AgentRaise(r)
    \/ \E r \in R : AgentHang(r)
    \/ \E r \in R : Resume(r)
    \/ \E r \in R : ResumeError(r)

Next ==
    \/ EnvRemove
    \/ EnvStop
    \/ \E b \in Bots : Construct(b)
    \/ Serve(BootReqs, Bots, Queries, Frags, MaxFrags)

Spec == Init /\ [][Next]_vars


\* One bot instance (b1) from deployment on, two requests.
NextServe ==
    \/ Construct("b1")
    \/ Serve(ServeReqs, LiveBots, Queries, Frags, MaxFrags)

SpecServe == Init /\ [][NextServe]_vars

\* After construction: b1 found the container running, built its agent and
\* is mounted; b2 was never deployed.
ServingLog(b) ==
    << Call("get", ContainerName, "running"),
       Call("get_agent", AgentArgs, "ok"),
       Call("create_run", <<b, 1>>, "ok"),
       Call("make_app", b, "ok") >>

InitLive ==
    /\ container = "running"
    /\ envSteps = 0
    /\ bpc = [b \in Bots |-> IF b \in LiveBots THEN "serving" ELSE "new"]
    /\ obs = [b \in Bots |-> IF b \in LiveBots THEN "running" ELSE "none"]
    /\ log = [b \in Bots |-> IF b \in LiveBots THEN ServingLog(b) ELSE <<>>]
    /\ agent = [b \in Bots |-> IF b \in LiveBots THEN <<b, 1>> ELSE <<>>]
    /\ agentRunId = [b \in Bots |-> IF b \in LiveBots THEN <<"run", <<b, 1>>>> ELSE <<>>]
    /\ InitRequests

\* One bot, as many requests as the executor has threads and one more,
\* generations of at most one fragment.
NextLive == Serve(Requests, LiveBots, LiveQueries, LiveFrags, 1)

\* A worker thread inside run_agent is scheduled by the operating system.
WorkerStep(r) ==
    \/ \E f \in LiveFrags : AgentYield(r, f, 1)
    \/ AgentComplete(r)
    \/ AgentRaise(r)
    \/ AgentHang(r)

\* The executor starts queued work when a thread is free, worker threads
\* run, and the event loop resumes a coroutine whose future is done.
\* Requests arriving and agents terminating are not assumed.
Fairness ==
    /\ \A b \in LiveBots : WF_vars(run_agent(b))
    /\ \A r \in Requests : WF_vars(WorkerStep(r))
    /\ \A r \in Requests : WF_vars(Resume(r))
    /\ \A r \in Requests : WF_vars(ResumeError(r))

SpecLive == InitLive /\ [][NextLive]_vars /\ Fairness


(***************************************************************************)
(* Properties                                                              *)
(***************************************************************************)
Arrived(r) == rpc[r] # "new"

\* Results of a log entry: the <<op, result>> pairs of bot b's calls.
Starts(b) == Count(log[b], "start")
Runs(b) == Count(log[b], "run")
StartNotFound(b) ==
    \E i \in Idx(log[b], "start") : log[b][i].res = "NotFound"
\* ensure_pgvector_running has returned to __init__.
EnsureReturned(b) == bpc[b] = "get_agent" \/ Count(log[b], "get_agent") > 0

\* C1: for a request with a non-empty message list, agent.run is invoked at
\* most once, exactly once as soon as a worker has taken the request, and
\* with the content of the last message; at most one chunk is emitted, only
\* by a request whose generation completed, and its text is the in-order
\* concatenation of the fragments that invocation produced; a request that
\* has been answered has emitted exactly one chunk.
C1_OneRunOneChunk ==
    \A r \in Requests :
        (Arrived(r) /\ query[r] # <<>>) =>
            /\ Len(runCalls[r]) <= 1
            /\ rpc[r] # "queued" => Len(runCalls[r]) = 1
            /\ \A i \in DOMAIN runCalls[r] :
                   runCalls[r][i].msg = query[r][Len(query[r])]
            /\ Len(chunks[r]) <= 1
            /\ chunks[r] # <<>> =>
                   /\ rpc[r] = "done"
                   /\ chunks[r][1] = Flatten(produced[r])
            /\ rpc[r] = "done" => Len(chunks[r]) = 1

\* C1 witness: a two-message request answered from two different fragments
\* while another request's generation is still in progress on the same bot.
C1_Witness ==
    \E r, o \in Requests :
        /\ r # o
        /\ rbot[r] = rbot[o]
        /\ rpc[r] = "done"
        /\ Len(query[r]) = 2
        /\ Len(produced[r]) = 2
        /\ produced[r][1] # produced[r][2]
        /\ rpc[o] = "running"
        /\ produced[o] # <<>>

\* C2: a request with an empty message list ends in an error, emits no
\* chunk, is never handed to the executor and never invokes the agent.
C2_EmptyQueryFails ==
    \A r \in Requests :
        (Arrived(r) /\ query[r] = <<>>) =>
            /\ rpc[r] = "failed"
            /\ chunks[r] = <<>>
            /\ runCalls[r] = <<>>
            /\ \A b \in Bots : \A i \in DOMAIN queue[b] : queue[b][i] # r

\* C2 witness: an empty-list request has failed on a serving bot.
C2_Witness ==
    \E r \in Requests :
        /\ query[r] = <<>>
        /\ rpc[r] = "failed"
        /\ bpc[rbot[r]] = "serving"

\* C3 as claimed: after a lookup that found the container not running, one
\* start call and no create-and-start call, whatever the start call gives;
\* after a lookup that found it running, neither call.
C3_StartOnlyAsClaimed ==
    \A b \in Bots :
        /\ obs[b] = "exited" =>
              /\ Starts(b) <= 1
              /\ bpc[b] # "start" => Starts(b) = 1
              /\ Runs(b) = 0
        /\ obs[b] = "running" => (Starts(b) = 0 /\ Runs(b) = 0)

\* C3 amended: after a lookup that found the container not running, exactly
\* one start call; no create-and-start call unless that start call raised
\* not-found, and then exactly one; after a lookup that found it running,
\* neither call.
C3_StartThenCreateOnlyOnNotFound ==
    \A b \in Bots :
        /\ obs[b] = "exited" =>
              /\ Starts(b) <= 1
              /\ bpc[b] # "start" => Starts(b) = 1
              /\ ~StartNotFound(b) => Runs(b) = 0
              /\ StartNotFound(b) =>
                    /\ Runs(b) <= 1
                    /\ bpc[b] # "run" => Runs(b) = 1
        /\ obs[b] = "running" => (Starts(b) = 0 /\ Runs(b) = 0)

\* C3 witness: a bot whose lookup found a stopped container issued its one
\* start call, the container had been removed meanwhile so the start raised
\* not-found, and the bot issued the create-and-start call.
C3_Witness ==
    \E b \in Bots :
        /\ obs[b] = "exited"
        /\ Starts(b) = 1
        /\ StartNotFound(b)
        /\ Runs(b) = 1

\* C4: after a lookup that raised not-found, no start call and exactly one
\* create-and-start call, with name "pgvector", image "phidata/pgvector:16",
\* container port 5432/tcp on host port 5532 and POSTGRES_DB, POSTGRES_USER,
\* POSTGRES_PASSWORD all "ai"; when the supervisor has returned, the one
\* sleep it made is the 15 second one, right after the create.
C4_CreateOnNotFound ==
    \A b \in Bots :
        obs[b] = "NotFound" =>
            /\ Starts(b) = 0
            /\ Runs(b) <= 1
            /\ bpc[b] # "run" => Runs(b) = 1
            /\ \A i \in Idx(log[b], "run") :
                  /\ log[b][i].arg.name = "pgvector"
                  /\ log[b][i].arg.image = "phidata/pgvector:16"
                  /\ log[b][i].arg.ports = [container |-> "5432/tcp", host |-> 5532]
                  /\ log[b][i].arg.environment =
                        [POSTGRES_DB |-> "ai", POSTGRES_USER |-> "ai",
                         POSTGRES_PASSWORD |-> "ai"]
            /\ EnsureReturned(b) =>
                  /\ Len(log[b]) >= 3
                  /\ log[b][2].op = "run"
                  /\ log[b][3].op = "sleep"
                  /\ log[b][3].arg = 15
                  /\ Count(log[b], "sleep") = 1

\* C4 witness: a bot whose lookup raised not-found has created the
\* container, slept and gone on to serve.
C4_Witness ==
    \E b \in Bots :
        /\ obs[b] = "NotFound"
        /\ Runs(b) = 1
        /\ bpc[b] = "serving"

\* A control-plane call whose error nothing in ensure_pgvector_running
\* catches: any error but the not-found of the lookup or of the start.
Uncaught(e) ==
    /\ e.op \in {"get", "start", "run"}
    /\ e.res \in {"APIError", "NotFound"}
    /\ ~(e.op \in {"get", "start"} /\ e.res = "NotFound")

\* C5: a control-plane error other than the handled not-found aborts the
\* construction: it is the bot's last call, no agent and no run handle
\* exist, and no request is ever handled by that bot.
C5_ErrorAbortsConstruction ==
    \A b \in Bots :
        \A i \in DOMAIN log[b] :
            Uncaught(log[b][i]) =>
                /\ i = Len(log[b])
                /\ bpc[b] = "aborted"
                /\ agent[b] = <<>>
                /\ agentRunId[b] = <<>>
                /\ \A r \in Requests : rbot[r] # b

\* C5 witness: a bot aborted by an error of its start call, made after a
\* lookup that succeeded, while the other bot has answered a request.
C5_Witness ==
    \E b, o \in Bots :
        /\ bpc[b] = "aborted"
        /\ Len(log[b]) = 2
        /\ log[b][2].op = "start"
        /\ log[b][2].res = "APIError"
        /\ \E r \in Requests : rbot[r] = o /\ rpc[r] = "done"

\* The call sequences of a supervisor that ran to its end.
CompleteSupervisor ==
    { << <<"get", "running">> >>,
      << <<"get", "exited">>, <<"start", "ok">>, <<"sleep", "ok">> >>,
      << <<"get", "exited">>, <<"start", "NotFound">>, <<"run", "ok">>,
         <<"sleep", "ok">> >>,
      << <<"get", "NotFound">>, <<"run", "ok">>, <<"sleep", "ok">> >> }

\* Bot b's calls before its first get_agent call.
BeforeAgent(b) ==
    LET first == CHOOSE i \in Idx(log[b], "get_agent") :
                     \A j \in Idx(log[b], "get_agent") : i <= j
    IN  Shape(SubSeq(log[b], 1, first - 1))

\* C6: the supervisor runs once per bot; when the agent is constructed the
\* supervisor has run to its end (lookup, any start or create, the delay);
\* a bot that handles a request has finished supervisor, get_agent,
\* create_run and make_app, in that order.
C6_SupervisorBeforeAgentBeforeRequests ==
    \A b \in Bots :
        /\ Count(log[b], "get") <= 1
        /\ Count(log[b], "get_agent") > 0 => BeforeAgent(b) \in CompleteSupervisor
        /\ (\E r \in Requests : rbot[r] = b) =>
              /\ bpc[b] = "serving"
              /\ Count(log[b], "get_agent") = 1
              /\ Shape(log[b]) = BeforeAgent(b) \o
                    << <<"get_agent", "ok">>, <<"create_run", "ok">>,
                       <<"make_app", "ok">> >>

\* C6 witness: a request handled by a bot whose supervisor had to start a
\* stopped container.
C6_Witness ==
    \E b \in Bots, r \in Requests :
        /\ rbot[r] = b
        /\ obs[b] = "exited"
        /\ Starts(b) = 1
        /\ Runs(b) = 0


\* Requests whose agent run on bot b hangs.
Hung(b) == {r \in Requests : rbot[r] = b /\ rpc[r] = "hung"}

\* Every worker thread of bot b's executor is held by a hung run.
PoolExhausted(b) == Cardinality(Hung(b)) >= MaxWorkers

Answered(r) == rpc[r] \in {"done", "failed"}

\* C7 as claimed: whatever the number of hung runs, a request that has
\* arrived is eventually answered unless its own agent run hangs.
C7_HangIsolatedAsClaimed ==
    \A r \in Requests :
        (rpc[r] = "queued") ~> (Answered(r) \/ rpc[r] = "hung")

\* C7 amended: a request that has arrived is eventually answered unless its
\* own agent run hangs or every worker thread of the executor is held by a
\* hung run; with fewer hung runs than worker threads the other requests
\* are served.
C7_HangIsolatedWhileWorkersRemain ==
    \A r \in Requests :
        (rpc[r] = "queued") ~>
            (Answered(r) \/ rpc[r] = "hung" \/ PoolExhausted(rbot[r]))

\* C7 witness: a request has been answered with its chunk while another
\* request's run on the same bot is hung.
C7_Witness ==
    \E h, r \in Requests :
        /\ h # r
        /\ rbot[h] = rbot[r]
        /\ rpc[h] = "hung"
        /\ rpc[r] = "done"
        /\ Len(chunks[r]) = 1
        /\ ~PoolExhausted(rbot[r])

\* C8: when the agent's generation raises, before or after fragments, the
\* request fails without any chunk, the fragments produced so far are not
\* delivered, and agent.run was invoked once for the request.
C8_AgentErrorFailsRequest ==
    \A r \in Requests :
        (rpc[r] = "raised" \/ (rpc[r] = "failed" /\ query[r] # <<>>)) =>
            /\ chunks[r] = <<>>
            /\ Len(runCalls[r]) = 1

\* C8 witness: a request has failed after its agent run produced a fragment.
C8_Witness ==
    \E r \in Requests :
        /\ rpc[r] = "failed"
        /\ produced[r] # <<>>
        /\ text[r] # <<>>

\* C9: a bot builds one Agent object and keeps it; every agent.run of a
\* request is made on the Agent object of the bot that handles it.
C9_OneSharedAgent ==
    /\ \A b \in Bots :
          /\ Count(log[b], "get_agent") <= 1
          /\ agent[b] \in {<<>>, <<b, 1>>}
    /\ \A r \in Requests :
          \A i \in DOMAIN runCalls[r] :
              /\ agent[rbot[r]] = <<rbot[r], 1>>
              /\ runCalls[r][i].agent = agent[rbot[r]]

\* C9 witness: two runs in progress at once on the same Agent object.
C9_Witness ==
    \E r, o \in Requests :
        /\ r # o
        /\ rpc[r] = "running"
        /\ rpc[o] = "running"
        /\ runCalls[r][1].agent = runCalls[o][1].agent

\* C10: nothing makes lookup-then-act atomic: a bot whose lookup (or start)
\* raised not-found issues its create-and-start call as its next call,
\* whatever the other bot has done to the engine since the lookup.
C10_CreateOnStaleLookup ==
    [][\A b \in Bots :
          bpc[b] = "run" =>
              \/ (bpc'[b] = "run" /\ log'[b] = log[b])
              \/ (/\ Len(log'[b]) = Len(log[b]) + 1
                  /\ log'[b][Len(log'[b])].op = "run")]_vars

\* C10 witness: with nobody else touching the engine, both bots observed
\* not-found and both issued a create for the same name; the second create
\* met the container the first had made.
C10_Witness ==
    /\ envSteps = 0
    /\ \A b \in Bots : obs[b] = "NotFound" /\ Runs(b) = 1
    /\ \E b \in Bots : log[b][2].res = "ok"
    /\ \E b \in Bots : log[b][2].res = "APIError"
    /\ \A b \in Bots : log[b][2].arg.name = "pgvector"

====
